---- MODULE Spec2Model ----
(***************************************************************************)
(* Conversation context compression of bytebot-agent                       *)
(* (ContextCompressionService): compressContext, adaptiveCompress and the  *)
(* four reduction strategies truncate, sliding-window, priority-based and  *)
(* summarize, modelled as a state machine over one transcript.             *)
(*                                                                         *)
(* Arithmetic.  The code computes budgets in floating point                *)
(* (modelContextWindow * 0.75, targetTokens * 0.3, ...).  The model keeps  *)
(* them exact by carrying the target budget multiplied by 4 (target4) and  *)
(* cross-multiplying every comparison.  Array indices are 1-based here and *)
(* 0-based in the code; formulas that use the index value (priorities,     *)
(* loop bounds) convert explicitly.                                        *)
(***************************************************************************)
EXTENDS Integers, Sequences, FiniteSets, TLC

\* ------------------------------------------------------------------------
\* Bounds of the model
\* ------------------------------------------------------------------------
MaxLen == 5
MaxRounds == 3

\* ------------------------------------------------------------------------
\* Program constants
\* ------------------------------------------------------------------------
DEFAULT_MAX_TOKENS == 150000
DefaultPreserveRecent == 5
\* '... [TRUNCATED]'.length
MarkerChars == 15
\* contextText.substring(0, 2000)
SummaryContextChars == 2000
\* characters of the generateSummary template outside its interpolations
SummaryTemplateChars == 272
\* '[CONTEXT SUMMARY]\n' + '\n[END SUMMARY]'
SummaryWrapperChars == 32
\* the tokenizer is an external library; it is modelled by the repository's
\* own size estimate, one token per four characters, rounded up
CharsPerToken == 4

Min(a, b) == IF a <= b THEN a ELSE b
Max(a, b) == IF a >= b THEN a ELSE b

\* ------------------------------------------------------------------------
\* Turns.  A turn is [role, str, blocks, err]: str says that content is a
\* raw string (then blocks holds that one text), blocks are [type, chars]
\* where chars is the length of the text the token estimator encodes, and
\* err says that the rendered content contains one of the error keywords.
\* ------------------------------------------------------------------------
TextBlock(n) == [type |-> "text", chars |-> n]

UserText == [role |-> "user", str |-> TRUE, blocks |-> <<TextBlock(12)>>, err |-> FALSE]
ToolUseTurn ==
  [role |-> "assistant", str |-> FALSE,
   blocks |-> <<[type |-> "tool_use", chars |-> 8]>>, err |-> FALSE]
ToolResultTurn ==
  [role |-> "user", str |-> FALSE,
   blocks |-> <<[type |-> "tool_result", chars |-> 4]>>, err |-> FALSE]
LongError ==
  [role |-> "assistant", str |-> FALSE,
   blocks |-> <<TextBlock(8), TextBlock(3000)>>, err |-> TRUE]

Catalog == {UserText, ToolUseTurn, ToolResultTurn, LongError}

RECURSIVE SeqsUpTo(_, _)
SeqsUpTo(S, n) ==
  IF n = 0 THEN {<<>>}
  ELSE LET shorter == SeqsUpTo(S, n - 1)
       IN  shorter \cup {Append(s, x) : s \in {t \in shorter : Len(t) = n - 1}, x \in S}

Transcripts == SeqsUpTo(Catalog, MaxLen)

\* An element of a transcript the service handles: src is the position of
\* the input turn it stems from (0 for the synthetic summary turn), msg its
\* content, and orig says that it is the very object of the input array, so
\* that messages.indexOf finds it (a truncated copy is a new object).
Item(i, m) == [src |-> i, msg |-> m, orig |-> TRUE]
Items(msgs) == [i \in 1..Len(msgs) |-> Item(i, msgs[i])]

\* ------------------------------------------------------------------------
\* Token estimator
\* ------------------------------------------------------------------------
encode(chars) == (chars + CharsPerToken - 1) \div CharsPerToken

RECURSIVE SumBlocks(_)
SumBlocks(blocks) ==
  IF blocks = <<>> THEN 0
  ELSE encode(Head(blocks).chars) + SumBlocks(Tail(blocks))

messageTokens(m) == SumBlocks(m.blocks)

RECURSIVE countTokens(_)
countTokens(items) ==
  IF items = <<>> THEN 0
  ELSE messageTokens(Head(items).msg) + countTokens(Tail(items))

\* ------------------------------------------------------------------------
\* Turn classifier
\* ------------------------------------------------------------------------
messageContainsError(m) == m.err

messageHasToolUse(m) ==
  /\ ~m.str
  /\ \E k \in 1..Len(m.blocks) : m.blocks[k].type \in {"tool_use", "tool_result"}

\* SliceLast with an off-by-one start: the window begins one element late
SliceLast_offByOne(s, n) ==
  IF n = 0 \/ n >= Len(s) THEN s
  ELSE SubSeq(s, Len(s) - n + 2, Len(s))

\* Array.prototype.slice(-n): the last n elements; slice(-0) is slice(0),
\* the whole array.
SliceLast(s, n) ==
  IF n = 0 \/ n >= Len(s) THEN s
  ELSE SubSeq(s, Len(s) - n + 1, Len(s))

\* Array.prototype.slice(0, -n): all but the last n elements; slice(0, -0)
\* is slice(0, 0), the empty array.
SliceButLast(s, n) ==
  IF n = 0 \/ n >= Len(s) THEN <<>>
  ELSE SubSeq(s, 1, Len(s) - n)

\* The budget comparisons: n tokens against the target carrying target4/4.
FitsTarget(n, target4) == 4 * n <= target4

\* messages.indexOf(a): the 0-based position of the object, -1 for an
\* object that is not an element of the input array.
indexOf(it) == IF it.orig THEN it.src - 1 ELSE -1

\* result.sort((a, b) => messages.indexOf(a) - messages.indexOf(b)); the
\* sort of Array.prototype.sort is stable.
RECURSIVE InsertByIndex(_, _)
InsertByIndex(sorted, x) ==
  IF sorted = <<>> THEN <<x>>
  ELSE IF indexOf(sorted[Len(sorted)]) <= indexOf(x) THEN Append(sorted, x)
       ELSE Append(InsertByIndex(SubSeq(sorted, 1, Len(sorted) - 1), x), sorted[Len(sorted)])

RECURSIVE SortByIndex(_)
SortByIndex(items) ==
  IF items = <<>> THEN <<>>
  ELSE InsertByIndex(SortByIndex(SubSeq(items, 1, Len(items) - 1)), items[Len(items)])

\* includes that never finds the element
includes_never(items, x) == FALSE

includes(items, x) == \E k \in 1..Len(items) : items[k] = x

\* ------------------------------------------------------------------------
\* Truncate: one invocation of truncateContext on (ms, preserveRecent)
\* ------------------------------------------------------------------------
\* for (i = messages.length - preserveRecent - 1; i >= 0; i--): i is the
\* 1-based position here
RECURSIVE Backfill(_, _, _, _, _)
Backfill(ms, i, res, cur, target4) ==
  IF i < 1 THEN res
  ELSE LET t == countTokens(<<ms[i]>>)
       IN  IF FitsTarget(cur + t, target4)
           THEN Backfill(ms, i - 1, <<ms[i]>> \o res, cur + t, target4)
           ELSE res

\* a recursion that passes preserveRecent on as it is
shrinkPreserve_same(p) == p

\* the preserveRecent argument of the recursive call
shrinkPreserve(p) == Max(1, p - 1)

TruncateReturnsInput(ms, p) == Len(ms) <= p

TruncateRecurses(ms, p, target4) ==
  /\ ~TruncateReturnsInput(ms, p)
  /\ ~FitsTarget(countTokens(SliceLast(ms, p)), target4)

TruncateResult(ms, p, target4) ==
  IF TruncateReturnsInput(ms, p) THEN ms
  ELSE LET recent == SliceLast(ms, p)
       IN  Backfill(ms, Len(ms) - p, recent, countTokens(recent), target4)

\* ------------------------------------------------------------------------
\* Sliding window
\* ------------------------------------------------------------------------
IsImportant(ms, i) ==
  \/ ms[i].msg.role = "user"
  \/ messageContainsError(ms[i].msg)
  \/ i = 1
  \/ i = Len(ms)

RECURSIVE ImportantUpTo(_, _)
ImportantUpTo(ms, n) ==
  IF n = 0 THEN <<>>
  ELSE IF IsImportant(ms, n) THEN Append(ImportantUpTo(ms, n - 1), n)
       ELSE ImportantUpTo(ms, n - 1)

identifyImportantMessages(ms) == ImportantUpTo(ms, Len(ms))

\* first pass: a must-keep turn is added when the running count stays
\* within targetTokens * 0.3, and skipped otherwise
\* a first pass that keeps every important turn whatever it costs
MustKeepPass_unbounded(ms, important, res, target4) ==
  res \o [k \in 1..Len(important) |-> ms[important[k]]]

RECURSIVE MustKeepPass(_, _, _, _)
MustKeepPass(ms, important, res, target4) ==
  IF important = <<>> THEN res
  ELSE LET x == ms[Head(important)]
           fits == 40 * countTokens(Append(res, x)) <= 3 * target4
       IN  MustKeepPass(ms, Tail(important), IF fits THEN Append(res, x) ELSE res, target4)

IsUserItem(it) == it.msg.role = "user"
IsErrorItem(it) == messageContainsError(it.msg)

\* window.find(m => m.role === 'user')
FirstUser(window) ==
  window[CHOOSE k \in 1..Len(window) :
           /\ IsUserItem(window[k])
           /\ \A j \in 1..(k - 1) : ~IsUserItem(window[j])]

\* window.find(m => this.messageContainsError(m))
FirstError(window) ==
  window[CHOOSE k \in 1..Len(window) :
           /\ IsErrorItem(window[k])
           /\ \A j \in 1..(k - 1) : ~IsErrorItem(window[j])]

\* window.reduce keeps the earliest turn of the smallest token count
Shortest(window) ==
  window[CHOOSE k \in 1..Len(window) :
           /\ \A j \in 1..Len(window) : countTokens(<<window[k]>>) <= countTokens(<<window[j]>>)
           /\ \A j \in 1..(k - 1) : countTokens(<<window[j]>>) > countTokens(<<window[k]>>)]

\* selectRepresentative of a non-empty window (the windows of the scan
\* always hold messages[i])
selectRepresentative(window) ==
  IF \E k \in 1..Len(window) : IsUserItem(window[k]) THEN FirstUser(window)
  ELSE IF \E k \in 1..Len(window) : IsErrorItem(window[k]) THEN FirstError(window)
  ELSE Shortest(window)

windowSizeOf(n) == (3 * n + 9) \div 10
strideOf(n) == Max(1, windowSizeOf(n) \div 2)

\* second pass: i is the 0-based loop variable of the code
RECURSIVE WindowPass(_, _, _, _)
WindowPass(ms, i, res, target4) ==
  IF i < 0 THEN res
  ELSE LET window == SubSeq(ms, Max(0, i - windowSizeOf(Len(ms))) + 1, i + 1)
           rep == selectRepresentative(window)
       IN  IF includes(res, rep) THEN WindowPass(ms, i - strideOf(Len(ms)), res, target4)
           ELSE IF FitsTarget(countTokens(Append(res, rep)), target4)
                THEN WindowPass(ms, i - strideOf(Len(ms)), Append(res, rep), target4)
                ELSE res

slidingWindowCompress(ms, target4) ==
  LET kept == MustKeepPass(ms, identifyImportantMessages(ms), <<>>, target4)
  IN  SortByIndex(WindowPass(ms, Len(ms) - 1, kept, target4))

\* ------------------------------------------------------------------------
\* Priority scorer.  The code's priority is (index / length) * 30 plus
\* integer bonuses; the model carries priority * length, which orders the
\* turns of one transcript the same way.
\* ------------------------------------------------------------------------
PriorityBonus(ms, i) ==
  LET m == ms[i].msg
      t == countTokens(<<ms[i]>>)
  IN  (IF m.role = "user" THEN 20 ELSE 0)
      + (IF messageContainsError(m) THEN 25 ELSE 0)
      + (IF messageHasToolUse(m) THEN 10 ELSE 0)
      + (IF i = 1 \/ i = Len(ms) THEN 15 ELSE 0)
      + (IF t < 100 THEN 5 ELSE IF t > 1000 THEN -10 ELSE 0)

calculatePriorities(ms) ==
  [i \in 1..Len(ms) |->
     [item |-> ms[i],
      priority |-> 30 * (i - 1) + Len(ms) * PriorityBonus(ms, i),
      tokenCount |-> countTokens(<<ms[i]>>)]]

\* priorities.sort((a, b) => b.priority - a.priority), stable
RECURSIVE InsertByPriority(_, _)
InsertByPriority(sorted, x) ==
  IF sorted = <<>> THEN <<x>>
  ELSE IF sorted[Len(sorted)].priority >= x.priority THEN Append(sorted, x)
       ELSE Append(InsertByPriority(SubSeq(sorted, 1, Len(sorted) - 1), x), sorted[Len(sorted)])

RECURSIVE SortByPriority(_)
SortByPriority(ps) ==
  IF ps = <<>> THEN <<>>
  ELSE InsertByPriority(SortByPriority(SubSeq(ps, 1, Len(ps) - 1)), ps[Len(ps)])

\* ------------------------------------------------------------------------
\* truncateMessage(message, maxTokens), maxTokens carried as max4 / 4.
\* The result is [found, same, msg]: found is FALSE for null, same says
\* that the message object itself was returned.
\* ------------------------------------------------------------------------
\* text.substring(0, Math.floor(text.length * (maxTokens / tokens))) + marker
TruncatedChars(chars, max4, tokens) ==
  Max(0, Min(chars, (chars * max4) \div (4 * tokens))) + MarkerChars

\* the loop over message.content: acc is [blocks, cur, stop]
RECURSIVE TruncateBlocks(_, _, _)
TruncateBlocks(blocks, acc, max4) ==
  IF blocks = <<>> \/ acc.stop THEN acc
  ELSE LET b == Head(blocks)
           bt == encode(b.chars)
       IN  IF 4 * (acc.cur + bt) <= max4
           THEN TruncateBlocks(Tail(blocks),
                  [blocks |-> Append(acc.blocks, b), cur |-> acc.cur + bt, stop |-> FALSE], max4)
           ELSE IF b.type = "text" /\ 5 * acc.cur < max4
           THEN [blocks |-> Append(acc.blocks,
                              TextBlock(TruncatedChars(b.chars, max4 - 4 * acc.cur, bt))),
                 cur |-> acc.cur, stop |-> TRUE]
           ELSE TruncateBlocks(Tail(blocks), acc, max4)

truncateMessage(m, max4) ==
  IF m.str
  THEN LET chars == m.blocks[1].chars
           tokens == encode(chars)
       IN  IF 4 * tokens <= max4
           THEN [found |-> TRUE, same |-> TRUE, msg |-> m]
           ELSE [found |-> TRUE, same |-> FALSE,
                 msg |-> [m EXCEPT !.blocks = <<TextBlock(TruncatedChars(chars, max4, tokens))>>]]
  ELSE LET acc == TruncateBlocks(m.blocks, [blocks |-> <<>>, cur |-> 0, stop |-> FALSE], max4)
       IN  IF acc.blocks # <<>>
           THEN [found |-> TRUE, same |-> FALSE, msg |-> [m EXCEPT !.blocks = acc.blocks]]
           ELSE [found |-> FALSE, same |-> FALSE, msg |-> m]

\* ------------------------------------------------------------------------
\* Priority-based: the scan over the sorted priorities; acc is [res, cur]
\* ------------------------------------------------------------------------
RECURSIVE PriorityScan(_, _, _)
PriorityScan(ps, acc, target4) ==
  IF ps = <<>> THEN acc.res
  ELSE LET it == Head(ps)
       IN  IF FitsTarget(acc.cur + it.tokenCount, target4)
           THEN PriorityScan(Tail(ps),
                  [res |-> Append(acc.res, it.item), cur |-> acc.cur + it.tokenCount], target4)
           ELSE IF 8 * acc.cur < target4
           THEN LET t == truncateMessage(it.item.msg, target4 - 4 * acc.cur)
                    kept == IF t.same THEN it.item
                            ELSE [src |-> it.item.src, msg |-> t.msg, orig |-> FALSE]
                    res2 == Append(acc.res, kept)
                IN  IF t.found
                    THEN PriorityScan(Tail(ps), [res |-> res2, cur |-> countTokens(res2)], target4)
                    ELSE PriorityScan(Tail(ps), acc, target4)
           ELSE PriorityScan(Tail(ps), acc, target4)

priorityBasedCompress(ms, target4) ==
  SortByIndex(PriorityScan(SortByPriority(calculatePriorities(ms)),
                           [res |-> <<>>, cur |-> 0], target4))

\* ------------------------------------------------------------------------
\* Summarize: one round of summarizeContext on ms
\* ------------------------------------------------------------------------
Digits(n) == IF n < 10 THEN 1 ELSE IF n < 100 THEN 2 ELSE 3

\* JSON.stringify of one content block: the keys and quotes around the text
\* the estimator counts (text; tool_use with id "t1", name "computer";
\* tool_result with tool_use_id "t1")
BlockJsonChars(b) ==
  CASE b.type = "text" -> 25 + b.chars
    [] b.type = "tool_use" -> 46 + 2 + 8 + b.chars
    [] b.type = "tool_result" -> 52 + 2 + b.chars

RECURSIVE SumBlockJson(_)
SumBlockJson(blocks) ==
  IF blocks = <<>> THEN 0
  ELSE BlockJsonChars(Head(blocks)) + SumBlockJson(Tail(blocks))

\* `${m.role}: ${content}` with content the string or JSON.stringify(content)
RenderedChars(m) ==
  Len(m.role) + 2
  + (IF m.str THEN m.blocks[1].chars
     ELSE 2 + SumBlockJson(m.blocks) + Max(0, Len(m.blocks) - 1))

RECURSIVE SumRendered(_)
SumRendered(ms) ==
  IF ms = <<>> THEN 0
  ELSE RenderedChars(Head(ms).msg) + SumRendered(Tail(ms))

\* .join('\n\n')
contextTextChars(ms) == SumRendered(ms) + 2 * Max(0, Len(ms) - 1)

CountRole(ms, r) == Cardinality({k \in 1..Len(ms) : ms[k].msg.role = r})

\* the length of the text generateSummary returns
generateSummary(ms) ==
  SummaryTemplateChars + Digits(CountRole(ms, "user")) + Digits(CountRole(ms, "assistant"))
  + Min(SummaryContextChars, contextTextChars(ms))

summaryMessage(toSummarize) ==
  [src |-> 0,
   msg |-> [role |-> "user", str |-> FALSE,
            blocks |-> <<TextBlock(SummaryWrapperChars + generateSummary(toSummarize))>>,
            err |-> \E k \in 1..Len(toSummarize) : toSummarize[k].msg.err],
   orig |-> FALSE]

preserveCountOf(ms) == Len(ms) \div 5
SummarizeToSummarize(ms) == SliceButLast(ms, preserveCountOf(ms))
SummarizePreserved(ms) == SliceLast(ms, preserveCountOf(ms))
SummarizeCompressed(ms) == <<summaryMessage(SummarizeToSummarize(ms))>> \o SummarizePreserved(ms)
SummarizeRecurses(ms, target4) == ~FitsTarget(countTokens(SummarizeCompressed(ms)), target4)

\* ------------------------------------------------------------------------
\* Strategy selection and overflow detection
\* ------------------------------------------------------------------------
Types == {"summarize", "truncate", "sliding-window", "priority-based"}

\* strategy.preserveRecent and preferredStrategy may be left undefined
Undefined == -1
NoPreference == "undefined"

\* hasHighPriorityMessages: errorCount > length * 0.1 or userCount > length * 0.4
hasHighPriorityMessages(ms) ==
  \/ 10 * Cardinality({k \in 1..Len(ms) : messageContainsError(ms[k].msg)}) > Len(ms)
  \/ 10 * Cardinality({k \in 1..Len(ms) : ms[k].msg.role = "user"}) > 4 * Len(ms)

\* a selector that answers a severe overflow with summarization
selectBestStrategy_severity(ms, currentTokens, modelContextWindow) ==
  IF currentTokens >= 2 * modelContextWindow THEN "summarize" ELSE "truncate"

\* a selector that follows hasHighPriorityMessages
selectBestStrategy_highPriority(ms, currentTokens, modelContextWindow) ==
  IF hasHighPriorityMessages(ms) THEN "priority-based" ELSE "sliding-window"

selectBestStrategy(ms, currentTokens, modelContextWindow) == "truncate"

\* UnderTarget with a strict comparison: a transcript exactly at the target
\* is compressed
UnderTarget_strict(originalTokenCount, t4) == 4 * originalTokenCount < t4

\* originalTokenCount <= targetTokens: compressContext returns its input
UnderTarget(originalTokenCount, t4) == 4 * originalTokenCount <= t4

\* currentTokens >= modelContextWindow * COMPRESSION_THRESHOLD (0.75)
detectContextOverflow(currentTokens, modelContextWindow) ==
  4 * currentTokens >= 3 * modelContextWindow

\* Math.min(strategy.maxTokens, modelContextWindow * 0.75), times 4
targetTokens4(strategy, modelContextWindow) ==
  Min(4 * strategy.maxTokens, 3 * modelContextWindow)

\* a descriptor that always asks for the last 10 turns
adaptiveStrategy_tenRecent(ms, modelContextWindow, preferredStrategy) ==
  [type |-> IF preferredStrategy # NoPreference THEN preferredStrategy ELSE "truncate",
   maxTokens |-> (6 * modelContextWindow) \div 10,
   preserveRecent |-> 10]

\* the strategy descriptor adaptiveCompress builds on overflow
adaptiveStrategy(ms, modelContextWindow, preferredStrategy) ==
  [type |-> IF preferredStrategy # NoPreference THEN preferredStrategy
            ELSE selectBestStrategy(ms, countTokens(ms), modelContextWindow),
   maxTokens |-> (6 * modelContextWindow) \div 10,
   preserveRecent |-> Min(10, (3 * Len(ms)) \div 10)]

\* ------------------------------------------------------------------------
\* bytebot-agent-cc: the message-list compression service
\* ------------------------------------------------------------------------
MaxFill == 52
MaxTail == 2

MAX_MESSAGES_TO_KEEP == 50
MAX_CONTEXT_SIZE == 150000
DefaultCcPreserveRecent == 10
ImportantKept == 5
CcSummaryTemplateChars == 290

\* Message shapes of the list: id is the position in the list (0 for the
\* synthetic summary), chars the length of a block's text or serialized
\* payload, err whether a text block contains error, failed or exception.
CcBlock(type, chars, err) == [type |-> type, chars |-> chars, err |-> err]
CcMessage(role, blocks) ==
  [id |-> 0, role |-> role, blocks |-> blocks, isCompressed |-> FALSE, originalSize |-> 0]

CcUser == CcMessage("USER", <<CcBlock("text", 12, FALSE)>>)
CcPlain == CcMessage("ASSISTANT", <<CcBlock("text", 20, FALSE)>>)
CcFailed == CcMessage("ASSISTANT", <<CcBlock("text", 20, TRUE)>>)
CcTool == CcMessage("ASSISTANT", <<CcBlock("text", 8, FALSE), CcBlock("tool_use", 30, FALSE)>>)
CcHuge == CcMessage("ASSISTANT", <<CcBlock("text", 600001, FALSE)>>)

CcCatalog == {CcUser, CcPlain, CcFailed, CcTool, CcHuge}

\* n copies of one message followed by a free tail, numbered by position
WithIds(l) == [k \in 1..Len(l) |-> [l[k] EXCEPT !.id = k]]
CcLists ==
  {WithIds([k \in 1..n |-> f] \o t) :
     f \in CcCatalog, n \in 0..MaxFill, t \in SeqsUpTo(CcCatalog, MaxTail)}

RECURSIVE SumCcBlocks(_)
SumCcBlocks(blocks) ==
  IF blocks = <<>> THEN 0 ELSE Head(blocks).chars + SumCcBlocks(Tail(blocks))

estimateMessageSize(m) == (SumCcBlocks(m.blocks) + CharsPerToken - 1) \div CharsPerToken

\* totalSize after the first k messages of the loop
RECURSIVE TotalSizeUpTo(_, _)
TotalSizeUpTo(ms, k) ==
  IF k = 0 THEN 0 ELSE TotalSizeUpTo(ms, k - 1) + estimateMessageSize(ms[k])

shouldCompress(ms) ==
  IF Len(ms) > MAX_MESSAGES_TO_KEEP THEN TRUE
  ELSE \E k \in 1..Len(ms) : TotalSizeUpTo(ms, k) > MAX_CONTEXT_SIZE

isImportantMessage(m) ==
  IF m.role = "USER" THEN TRUE
  ELSE IF \E k \in 1..Len(m.blocks) : m.blocks[k].type = "text" /\ m.blocks[k].err THEN TRUE
  ELSE \E k \in 1..Len(m.blocks) : m.blocks[k].type \in {"tool_use", "tool_result"}

RECURSIVE FilterImportant(_)
FilterImportant(ms) ==
  IF ms = <<>> THEN <<>>
  ELSE IF isImportantMessage(Head(ms)) THEN <<Head(ms)>> \o FilterImportant(Tail(ms))
  ELSE FilterImportant(Tail(ms))

RECURSIVE CountCcRole(_, _)
CountCcRole(ms, role) ==
  IF ms = <<>> THEN 0
  ELSE (IF Head(ms).role = role THEN 1 ELSE 0) + CountCcRole(Tail(ms), role)

createSummaryMessage(ms) ==
  [id |-> 0, role |-> "USER",
   blocks |-> <<CcBlock("text",
                  CcSummaryTemplateChars + Digits(CountCcRole(ms, "USER"))
                    + Digits(CountCcRole(ms, "ASSISTANT")), FALSE)>>,
   isCompressed |-> TRUE, originalSize |-> Len(ms)]

compressMessages(ms, preserveRecent) ==
  IF Len(ms) <= MAX_MESSAGES_TO_KEEP THEN ms
  ELSE LET recentMessages == SliceLast(ms, preserveRecent)
           oldMessages == SliceButLast(ms, preserveRecent)
           importantOldMessages == FilterImportant(oldMessages)
       IN  <<createSummaryMessage(oldMessages)>>
             \o SliceLast(importantOldMessages, ImportantKept)
             \o recentMessages

\* ------------------------------------------------------------------------
\* State
\* ------------------------------------------------------------------------
VARIABLES
  messages,   \* the transcript handed to the service
  pc,         \* "idle", "truncate", "summarize" (inside the recursion), "done"
  call,       \* the running or last call: entry point and arguments
  frame,      \* the messages argument of the current recursive invocation
  preserve,   \* the preserveRecent argument of the current truncateContext
  rounds,     \* invocations of the recursive strategy so far
  result,     \* the CompressedContext returned
  prev,       \* budget and outcome of the preceding call on this transcript
  cc          \* bytebot-agent-cc: the list, the arguments and the two answers

vars == <<messages, pc, call, frame, preserve, rounds, result, prev, cc>>

Budgets == {3, 6, 600}
Windows == {5, DEFAULT_MAX_TOKENS}
PreserveChoices == {Undefined, 0, 1, 3}
AdaptiveWindows == {5, 10, 1000}

NoStrategy == [type |-> "truncate", maxTokens |-> 0, preserveRecent |-> Undefined]
NoCall == [entry |-> "none", strategy |-> NoStrategy, window |-> 0, preferred |-> NoPreference]
NoResult ==
  [messages |-> <<>>, summary |-> FALSE, ratio |-> [num |-> 0, den |-> 1],
   originalTokenCount |-> 0, compressedTokenCount |-> 0, strategy |-> NoStrategy]
NoPrev == [valid |-> FALSE, maxTokens |-> 0, window |-> 0, compressedTokenCount |-> 0]

CcPreserveChoices == {Undefined, 0, 1, 60}
NoOutput == [valid |-> FALSE, messages |-> <<>>]
NoCc == [messages |-> <<>>, should |-> "unknown", preserveRecent |-> Undefined, output |-> NoOutput]

Init ==
  /\ messages \in Transcripts
  /\ pc = "idle"
  /\ call = NoCall
  /\ frame = <<>>
  /\ preserve = 0
  /\ rounds = 0
  /\ result = NoResult
  /\ prev = NoPrev
  /\ cc = NoCc

target4 == targetTokens4(call.strategy, call.window)

\* the pass-through result: the input array itself, compressionRatio 1
PassThrough(strategy) ==
  [messages |-> Items(messages), summary |-> FALSE, ratio |-> [num |-> 1, den |-> 1],
   originalTokenCount |-> countTokens(Items(messages)),
   compressedTokenCount |-> countTokens(Items(messages)),
   strategy |-> strategy]

\* the result record compressContext builds after a strategy ran
Compressed(out, hasSummary, strategy) ==
  [messages |-> out, summary |-> hasSummary,
   ratio |-> [num |-> countTokens(out), den |-> countTokens(Items(messages))],
   originalTokenCount |-> countTokens(Items(messages)),
   compressedTokenCount |-> countTokens(out),
   strategy |-> strategy]

\* compressContext(messages, strategy, modelContextWindow) up to the first
\* invocation of a recursive strategy
compressContext(entry, strategy, window, preferred) ==
  LET ms == Items(messages)
      t4 == targetTokens4(strategy, window)
      p  == IF strategy.preserveRecent = Undefined THEN DefaultPreserveRecent
            ELSE strategy.preserveRecent
  IN  /\ call' = [entry |-> entry, strategy |-> strategy, window |-> window,
                  preferred |-> preferred]
      /\ rounds' = 0
      /\ IF UnderTarget(countTokens(ms), t4)
         THEN /\ pc' = "done"
              /\ result' = PassThrough(strategy)
              /\ frame' = <<>>
              /\ preserve' = 0
         ELSE CASE strategy.type = "truncate" ->
                     /\ pc' = "truncate"
                     /\ frame' = ms
                     /\ preserve' = p
                     /\ result' = NoResult
                [] strategy.type = "summarize" ->
                     /\ pc' = "summarize"
                     /\ frame' = ms
                     /\ preserve' = 0
                     /\ result' = NoResult
                [] strategy.type = "sliding-window" ->
                     /\ pc' = "done"
                     /\ frame' = <<>>
                     /\ preserve' = 0
                     /\ result' = Compressed(slidingWindowCompress(ms, t4), FALSE, strategy)
                [] strategy.type = "priority-based" ->
                     /\ pc' = "done"
                     /\ frame' = <<>>
                     /\ preserve' = 0
                     /\ result' = Compressed(priorityBasedCompress(ms, t4), FALSE, strategy)

\* ------------------------------------------------------------------------
\* Actions
\* ------------------------------------------------------------------------
CompressContext(type, maxTokens, preserveRecent, window) ==
  /\ pc = "idle"
  /\ compressContext("compressContext",
       [type |-> type, maxTokens |-> maxTokens, preserveRecent |-> preserveRecent],
       window, NoPreference)
  /\ UNCHANGED <<cc, messages, prev>>

\* the same call again with a smaller maxTokens
CompressAgain(maxTokens) ==
  /\ pc = "done"
  /\ call.entry = "compressContext"
  /\ ~prev.valid
  /\ maxTokens < call.strategy.maxTokens
  /\ prev' = [valid |-> TRUE, maxTokens |-> call.strategy.maxTokens,
              window |-> call.window,
              compressedTokenCount |-> result.compressedTokenCount]
  /\ compressContext("compressContext", [call.strategy EXCEPT !.maxTokens = maxTokens],
       call.window, NoPreference)
  /\ UNCHANGED <<cc, messages>>

AdaptiveNoOverflow(window, preferred) ==
  /\ pc = "idle"
  /\ ~detectContextOverflow(countTokens(Items(messages)), window)
  /\ call' = [entry |-> "adaptiveCompress",
              strategy |-> [type |-> "truncate", maxTokens |-> window,
                            preserveRecent |-> Undefined],
              window |-> window, preferred |-> preferred]
  /\ pc' = "done"
  /\ result' = PassThrough([type |-> "truncate", maxTokens |-> window,
                            preserveRecent |-> Undefined])
  /\ UNCHANGED <<cc, messages, frame, preserve, rounds, prev>>

AdaptiveOverflow(window, preferred) ==
  /\ pc = "idle"
  /\ detectContextOverflow(countTokens(Items(messages)), window)
  /\ compressContext("adaptiveCompress",
       adaptiveStrategy(Items(messages), window, preferred), window, preferred)
  /\ UNCHANGED <<cc, messages, prev>>

\* adaptiveCompress again on the same transcript for a smaller window
AdaptiveAgain(window) ==
  /\ pc = "done"
  /\ call.entry = "adaptiveCompress"
  /\ call.preferred = NoPreference
  /\ ~prev.valid
  /\ window < call.window
  /\ prev' = [valid |-> TRUE, maxTokens |-> call.strategy.maxTokens,
              window |-> call.window,
              compressedTokenCount |-> result.compressedTokenCount]
  /\ IF detectContextOverflow(countTokens(Items(messages)), window)
     THEN compressContext("adaptiveCompress",
            adaptiveStrategy(Items(messages), window, NoPreference), window, NoPreference)
     ELSE /\ call' = [entry |-> "adaptiveCompress",
                      strategy |-> [type |-> "truncate", maxTokens |-> window,
                                    preserveRecent |-> Undefined],
                      window |-> window, preferred |-> NoPreference]
          /\ pc' = "done"
          /\ result' = PassThrough([type |-> "truncate", maxTokens |-> window,
                                    preserveRecent |-> Undefined])
          /\ frame' = <<>>
          /\ preserve' = 0
          /\ rounds' = 0
  /\ UNCHANGED <<cc, messages>>

TruncateRecurse ==
  /\ pc = "truncate"
  /\ TruncateRecurses(frame, preserve, target4)
  /\ frame' = SliceLast(frame, preserve)
  /\ preserve' = shrinkPreserve(preserve)
  /\ rounds' = rounds + 1
  /\ UNCHANGED <<cc, messages, pc, call, result, prev>>

TruncateReturn ==
  /\ pc = "truncate"
  /\ ~TruncateRecurses(frame, preserve, target4)
  /\ result' = Compressed(TruncateResult(frame, preserve, target4), FALSE, call.strategy)
  /\ pc' = "done"
  /\ rounds' = rounds + 1
  /\ UNCHANGED <<cc, messages, call, frame, preserve, prev>>

\* The recursion of summarizeContext has no cap in the code; the model stops
\* counting rounds at MaxRounds.
SummarizeRecurse ==
  /\ pc = "summarize"
  /\ rounds < MaxRounds
  /\ SummarizeRecurses(frame, target4)
  /\ frame' = SummarizePreserved(frame)
  /\ rounds' = rounds + 1
  /\ UNCHANGED <<cc, messages, pc, call, preserve, result, prev>>

SummarizeReturn ==
  /\ pc = "summarize"
  /\ rounds < MaxRounds
  /\ ~SummarizeRecurses(frame, target4)
  /\ result' = Compressed(SummarizeCompressed(frame), TRUE, call.strategy)
  /\ pc' = "done"
  /\ rounds' = rounds + 1
  /\ UNCHANGED <<cc, messages, call, frame, preserve, prev>>

Next ==
  \/ \E type \in Types, maxTokens \in Budgets, window \in Windows :
       \E preserveRecent \in (IF type = "truncate" THEN PreserveChoices ELSE {Undefined}) :
         CompressContext(type, maxTokens, preserveRecent, window)
  \/ \E maxTokens \in Budgets : CompressAgain(maxTokens)
  \/ \E window \in AdaptiveWindows, preferred \in Types \cup {NoPreference} :
       AdaptiveNoOverflow(window, preferred)
  \/ \E window \in AdaptiveWindows, preferred \in Types \cup {NoPreference} :
       AdaptiveOverflow(window, preferred)
  \/ \E window \in AdaptiveWindows : AdaptiveAgain(window)
  \/ TruncateRecurse
  \/ TruncateReturn
  \/ SummarizeRecurse
  \/ SummarizeReturn

Spec == Init /\ [][Next]_vars

\* ------------------------------------------------------------------------
\* bytebot-agent-cc: shouldCompress and compressMessages on one list
\* ------------------------------------------------------------------------
InitCC ==
  /\ messages = <<>>
  /\ pc = "idle"
  /\ call = NoCall
  /\ frame = <<>>
  /\ preserve = 0
  /\ rounds = 0
  /\ result = NoResult
  /\ prev = NoPrev
  /\ \E l \in CcLists : cc = [NoCc EXCEPT !.messages = l]

ShouldCompress ==
  /\ cc.should = "unknown"
  /\ cc' = [cc EXCEPT !.should = IF shouldCompress(cc.messages) THEN "yes" ELSE "no"]
  /\ UNCHANGED <<messages, pc, call, frame, preserve, rounds, result, prev>>

CompressMessages(preserveRecent) ==
  /\ ~cc.output.valid
  /\ cc' = [cc EXCEPT
              !.preserveRecent = preserveRecent,
              !.output = [valid |-> TRUE,
                          messages |-> compressMessages(cc.messages,
                            IF preserveRecent = Undefined THEN DefaultCcPreserveRecent
                            ELSE preserveRecent)]]
  /\ UNCHANGED <<messages, pc, call, frame, preserve, rounds, result, prev>>

NextCC ==
  \/ ShouldCompress
  \/ \E preserveRecent \in CcPreserveChoices : CompressMessages(preserveRecent)

SpecCC == InitCC /\ [][NextCC]_vars

\* ------------------------------------------------------------------------
\* Vocabulary of the properties
\* ------------------------------------------------------------------------
InputItems == Items(messages)
OrigCount == countTokens(InputItems)
Finished == pc = "done"

\* a reduction strategy ran: the call got past both pass-through returns
Dispatched ==
  /\ call.entry \in {"compressContext", "adaptiveCompress"}
  /\ call.entry = "adaptiveCompress" => 4 * OrigCount >= 3 * call.window
  /\ 4 * OrigCount > 4 * call.strategy.maxTokens \/ 4 * OrigCount > 3 * call.window

EffectivePreserve ==
  IF call.strategy.preserveRecent = Undefined THEN DefaultPreserveRecent
  ELSE call.strategy.preserveRecent

\* the last n turns of the input (none for n = 0)
LastTurns(n) == SubSeq(InputItems, Len(InputItems) - Min(n, Len(InputItems)) + 1, Len(InputItems))

OutputSources == {result.messages[k].src : k \in 1..Len(result.messages)} \ {0}

\* C1: a Truncate run on an over-budget transcript returns at most the
\* target budget whenever the last turn alone fits in it, for every
\* preserveRecent >= 1.
C1_TruncateWithinBudget ==
  (/\ Finished
   /\ Dispatched
   /\ call.strategy.type = "truncate"
   /\ EffectivePreserve >= 1
   /\ 4 * countTokens(LastTurns(1)) <= target4)
  => 4 * result.compressedTokenCount <= target4

\* C2: a transcript within min(maxTokens, 0.75 * window) comes back from
\* compressContext identical, with ratio exactly 1, equal token counts and
\* no strategy invoked; adaptiveCompress below 0.75 * window likewise.
C2_NoOpPath ==
  /\ (/\ Finished
      /\ call.entry = "compressContext"
      /\ OrigCount <= call.strategy.maxTokens
      /\ 4 * OrigCount <= 3 * call.window)
     => /\ result.messages = InputItems
        /\ result.ratio = [num |-> 1, den |-> 1]
        /\ result.compressedTokenCount = result.originalTokenCount
        /\ result.originalTokenCount = OrigCount
        /\ ~result.summary
        /\ rounds = 0
  /\ (/\ Finished
      /\ call.entry = "adaptiveCompress"
      /\ 4 * OrigCount < 3 * call.window)
     => /\ result.messages = InputItems
        /\ result.ratio = [num |-> 1, den |-> 1]
        /\ rounds = 0

C2_Witness ==
  /\ Finished
  /\ call.entry = "compressContext"
  /\ Len(messages) >= 2
  /\ OrigCount = call.strategy.maxTokens
  /\ result.messages = InputItems

\* C3: the output turns that stem from input turns, whole or truncated,
\* stand in the order of their originals.
C3_OrderPreserved ==
  Finished =>
    \A j, k \in 1..Len(result.messages) :
      (j < k /\ result.messages[j].src # 0 /\ result.messages[k].src # 0)
      => result.messages[j].src <= result.messages[k].src

\* C4: every recursive round of Summarize runs on a strictly smaller
\* transcript than the round before it.
C4_SummarizeShrinks ==
  [][(pc = "summarize" /\ pc' = "summarize") => Len(frame') < Len(frame)]_vars

\* C5: whenever a strategy ran, compressedTokenCount <= originalTokenCount.
C5_RatioAtMostOne ==
  (Finished /\ Dispatched) => result.compressedTokenCount <= result.originalTokenCount

\* C6: the same call with a smaller maxTokens never returns more tokens.
C6_BudgetMonotone ==
  (Finished /\ prev.valid /\ call.strategy.maxTokens < prev.maxTokens)
  => result.compressedTokenCount <= prev.compressedTokenCount

IsToolPair(i) ==
  /\ i \in 1..(Len(messages) - 1)
  /\ \E k \in 1..Len(messages[i].blocks) : messages[i].blocks[k].type = "tool_use"
  /\ \E k \in 1..Len(messages[i + 1].blocks) : messages[i + 1].blocks[k].type = "tool_result"

\* C9: when the two turns of a tool pair together fit in the budget, the
\* output holds both or neither.
C9_ToolPairsKept ==
  (Finished /\ Dispatched) =>
    \A i \in 1..Len(messages) :
      (IsToolPair(i) /\ 4 * countTokens(SubSeq(InputItems, i, i + 1)) <= target4)
      => (i \in OutputSources <=> (i + 1) \in OutputSources)

\* the largest n such that the last n turns fit in the target
LongestFittingSuffix ==
  CHOOSE n \in 0..Len(messages) :
    /\ 4 * countTokens(LastTurns(n)) <= target4
    /\ \A m \in (n + 1)..Len(messages) : 4 * countTokens(LastTurns(m)) > target4

ContainsAll(out, items) == \A k \in 1..Len(items) : includes(out, items[k])

\* C10: Truncate keeps the last preserveRecent turns unmodified when they
\* fit in the budget together, and otherwise the longest suffix that fits,
\* at least the last turn.
C10_RecencyPreserved ==
  (Finished /\ Dispatched /\ call.strategy.type = "truncate")
  => IF 4 * countTokens(LastTurns(EffectivePreserve)) <= target4
     THEN ContainsAll(result.messages, LastTurns(EffectivePreserve))
     ELSE ContainsAll(result.messages, LastTurns(Max(1, LongestFittingSuffix)))

C10_Witness ==
  /\ Finished
  /\ Dispatched
  /\ call.strategy.type = "truncate"
  /\ EffectivePreserve = 3
  /\ Len(messages) > 3
  /\ 4 * countTokens(LastTurns(3)) > target4
  /\ LongestFittingSuffix = 2
  /\ Len(result.messages) = 2
  /\ ContainsAll(result.messages, LastTurns(2))

\* the window of the first step of the sliding scan (i = length - 1)
LastWindow ==
  SubSeq(InputItems, Max(0, Len(InputItems) - 1 - windowSizeOf(Len(InputItems))) + 1,
         Len(InputItems))

MustKept == MustKeepPass(InputItems, identifyImportantMessages(InputItems), <<>>, target4)

\* C11: in the output of Sliding Window and of Priority-Based no input turn
\* (identified by its position) appears twice.
C11_NoDuplicates ==
  (Finished /\ Dispatched /\ call.strategy.type \in {"sliding-window", "priority-based"})
  => \A j, k \in 1..Len(result.messages) :
       j # k => result.messages[j].src # result.messages[k].src

\* a turn kept by the must-keep pass is also the representative of a window
C11_Witness ==
  /\ Finished
  /\ Dispatched
  /\ call.strategy.type = "sliding-window"
  /\ includes(MustKept, selectRepresentative(LastWindow))
  /\ includes(result.messages, selectRepresentative(LastWindow))
  /\ Len(result.messages) > Len(MustKept)

\* C12: every Summarize round over n turns preserves exactly the most recent
\* floor(0.2 * n) turns and summarizes exactly the older ones (no turn in both
\* parts, none in neither); a returned result is flagged as summarized and is
\* one synthetic user-role text turn followed by the preserved turns of the
\* final round.
C12_RoundPartition ==
  /\ pc = "summarize" =>
       LET n == Len(frame)
           k == (2 * n) \div 10
       IN  /\ SummarizePreserved(frame) = SubSeq(frame, n - k + 1, n)
           /\ SummarizeToSummarize(frame) = SubSeq(frame, 1, n - k)
  /\ (Finished /\ Dispatched /\ call.strategy.type = "summarize") =>
       /\ result.summary
       /\ Len(result.messages) = 1 + Len(SummarizePreserved(frame))
       /\ ~result.messages[1].orig
       /\ result.messages[1].msg.role = "user"
       /\ Len(result.messages[1].msg.blocks) = 1
       /\ result.messages[1].msg.blocks[1].type = "text"
       /\ Tail(result.messages) = SummarizePreserved(frame)

\* C13: for a fixed transcript and no preferred strategy, adaptiveCompress
\* for a smaller window never returns more tokens than for a larger window.
C13_WindowMonotone ==
  (Finished /\ prev.valid /\ call.entry = "adaptiveCompress" /\ call.window < prev.window)
  => result.compressedTokenCount <= prev.compressedTokenCount

\* both windows overflow and the smaller one keeps strictly less
C13_Witness ==
  /\ Finished
  /\ prev.valid
  /\ call.entry = "adaptiveCompress"
  /\ call.window < prev.window
  /\ detectContextOverflow(OrigCount, prev.window)
  /\ result.compressedTokenCount < prev.compressedTokenCount
  /\ prev.compressedTokenCount < OrigCount

\* one recursive call of truncateContext
TruncateStep == pc = "truncate" /\ pc' = "truncate" /\ rounds' = rounds + 1

\* a Truncate run on a non-empty transcript returned a non-empty transcript
\* that ends with the last input turn
TruncateReturnedLast ==
  (Finished /\ Dispatched /\ call.strategy.type = "truncate" /\ messages # <<>>)
  => /\ result.messages # <<>>
     /\ result.messages[Len(result.messages)] = InputItems[Len(InputItems)]

\* C14 as stated: Truncate terminates because every recursive call strictly
\* decreases preserveRecent until it is 1, and it returns a non-empty transcript
\* holding at least the last turn, for every preserveRecent >= 0.
C14_PreserveDecreasesToOne ==
  [][/\ TruncateStep => (preserve' >= 1 /\ (preserve' < preserve \/ preserve = 1))
     /\ TruncateReturnedLast']_vars

\* C14: Truncate terminates within max(preserveRecent, 2) recursive calls and
\* returns a non-empty transcript holding at least the last turn: a call with
\* preserveRecent 0 recurses on the same transcript with preserveRecent 1, and
\* every other recursive call runs on a strictly shorter, non-empty transcript
\* with preserveRecent lowered by one but not below 1.
C14_TruncateTerminates ==
  [][/\ TruncateStep =>
          /\ preserve >= 2 => preserve' = preserve - 1
          /\ preserve <= 1 => preserve' = 1
          /\ preserve >= 1 => Len(frame') < Len(frame)
          /\ preserve = 0 => frame' = frame
          /\ frame' # <<>>
          /\ rounds' <= Max(EffectivePreserve, 2)
     /\ TruncateReturnedLast']_vars

\* preserveRecent 0, not even the last turn fits: two recursive calls, then
\* the last turn alone is returned
C14_Witness ==
  /\ Finished
  /\ Dispatched
  /\ call.strategy.type = "truncate"
  /\ EffectivePreserve = 0
  /\ Len(messages) >= 2
  /\ ~FitsTarget(countTokens(LastTurns(1)), target4)
  /\ result.messages = LastTurns(1)
  /\ rounds = 3

\* the turns of the input in the order the Priority-Based scan visits them
Ranked == SortByPriority(calculatePriorities(InputItems))

\* the accumulated token count when the scan reaches rank k
ScanTotalBefore(k) ==
  countTokens(PriorityScan(SubSeq(Ranked, 1, k - 1), [res |-> <<>>, cur |-> 0], target4))

\* the turn at rank k neither fits whole nor qualifies for partial inclusion
Rejected(k) ==
  /\ ~FitsTarget(ScanTotalBefore(k) + Ranked[k].tokenCount, target4)
  /\ ~(8 * ScanTotalBefore(k) < target4)

\* C15: in a Priority-Based scan, once a turn is reached that neither fits
\* whole nor qualifies for partial inclusion, no lower-ranked turn is in the
\* output: every kept turn ranks above the first rejected turn.
C15_StopAtFirstRejected ==
  (Finished /\ Dispatched /\ call.strategy.type = "priority-based")
  => \A k \in 1..Len(Ranked) :
       Rejected(k) => \A j \in (k + 1)..Len(Ranked) : Ranked[j].item.src \notin OutputSources

\* C16: in a Sliding Window run the turns added by the must-keep pass total at
\* most 30% of the target budget, they are all in the output, and the output
\* never exceeds the target budget (which is at most maxTokens).
C16_SlidingWithinBudget ==
  (Finished /\ Dispatched /\ call.strategy.type = "sliding-window")
  => /\ 40 * countTokens(MustKept) <= 3 * target4
     /\ ContainsAll(result.messages, MustKept)
     /\ 4 * result.compressedTokenCount <= target4
     /\ result.compressedTokenCount <= call.strategy.maxTokens

\* the must-keep pass skipped an important turn for its sub-budget, the window
\* scan added a representative and stopped before the whole input was kept
C16_Witness ==
  /\ Finished
  /\ Dispatched
  /\ call.strategy.type = "sliding-window"
  /\ MustKept # <<>>
  /\ Len(MustKept) < Len(identifyImportantMessages(InputItems))
  /\ Len(result.messages) > Len(MustKept)
  /\ Len(result.messages) < Len(messages)

\* adaptiveCompress without a preferred strategy detected an overflow on a
\* non-empty transcript whose last turn alone fits in floor(0.6 * window)
AdaptiveCurable ==
  /\ Finished
  /\ call.entry = "adaptiveCompress"
  /\ call.preferred = NoPreference
  /\ messages # <<>>
  /\ detectContextOverflow(OrigCount, call.window)
  /\ countTokens(LastTurns(1)) <= (6 * call.window) \div 10

\* C17: when adaptiveCompress (no preferred strategy) detects an overflow and
\* the last turn alone fits in floor(0.6 * window), the returned token count
\* is at most floor(0.6 * window) and is no overflow for that window.
C17_AdaptiveCuresOverflow ==
  AdaptiveCurable
  => /\ result.compressedTokenCount <= (6 * call.window) \div 10
     /\ ~detectContextOverflow(result.compressedTokenCount, call.window)

\* a transcript of at most 3 turns (derived preserveRecent 0) that is cut
C17_Witness ==
  /\ AdaptiveCurable
  /\ Len(messages) <= 3
  /\ call.strategy.preserveRecent = 0
  /\ Len(result.messages) < Len(messages)
  /\ result.messages # <<>>

\* both answers for the list are in
CcAnswered == cc.should # "unknown" /\ cc.output.valid

CcEffectivePreserve ==
  IF cc.preserveRecent = Undefined THEN DefaultCcPreserveRecent ELSE cc.preserveRecent

\* C18: compressMessages returns its input unchanged exactly when
\* shouldCompress returns false, so every list shouldCompress flags is reduced
\* (not handed back as it is).
C18_ShouldAndCompressAgree ==
  CcAnswered => ((cc.output.messages = cc.messages) <=> (cc.should = "no"))

\* C19: for a list of more than 50 messages compressMessages returns the
\* synthetic summary, then at most 5 important older messages, then exactly
\* the last preserveRecent input messages, all in original order: at most
\* preserveRecent + 6 messages, and no input message twice.
C19_OutputShape ==
  (cc.output.valid /\ Len(cc.messages) > MAX_MESSAGES_TO_KEEP)
  => LET ms == cc.messages
         n == Len(ms)
         p == Min(CcEffectivePreserve, n)
         out == cc.output.messages
         k == Len(out) - 1 - p
     IN  /\ out # <<>>
         /\ out[1].isCompressed
         /\ out[1].role = "USER"
         /\ k \in 0..ImportantKept
         /\ SubSeq(out, k + 2, Len(out)) = SubSeq(ms, n - p + 1, n)
         /\ \A j \in 2..(k + 1) :
              /\ out[j].id \in 1..(n - p)
              /\ out[j] = ms[out[j].id]
              /\ isImportantMessage(out[j])
         /\ \A i, j \in 2..Len(out) : i < j => out[i].id < out[j].id
         /\ Len(out) <= CcEffectivePreserve + ImportantKept + 1

====
